---- MODULE Spec2Model ----
(***************************************************************************)
(* Model of the VIK analog joystick pipeline of the fingerpunch pinkiesout *)
(* v3_1 keymap (vikstik.c / vikstik.h): calibration, scaling and deadzone, *)
(* orientation rotation, direction quantizer, edge-triggered key mapper,   *)
(* mode dispatcher and the orientation / mode configuration.               *)
(*                                                                         *)
(* Integer widths follow a 32-bit int target (the RP2040 / STM32 boards    *)
(* the VIK connector is used on): int8_t and uint16_t operands promote to  *)
(* int, so the comparisons of handle_axis are signed.                      *)
(***************************************************************************)
EXTENDS Integers, Sequences, FiniteSets, TLC

VARIABLES
    mode,                \* vikstik_config.mode (uint8_t)
    up_orientation,      \* vikstik_config.up_orientation (int16_t)
    vikstik_calibration, \* joystick_calibration_t
    px, py,              \* statics of handle_vikstik_keys_4
    held,                \* keys the host sees as down (register_code16 / unregister_code16)
    axis,                \* joystick report, channels 0 and 1 (joystick_set_axis)
    layer,               \* get_highest_layer(layer_state)
    events,              \* key events emitted by the last operation, in order
    effect,              \* lighting effect invoked by the last operation, or "none"
    last_op,             \* name of the last operation
    prev_px, prev_py,    \* px, py as read by the last handle_vikstik_keys_4 call
    mode_hist,           \* modes before each of the last (at most 3) step_stick_mode calls
    last_step,           \* <<orientation before, step>> of the last step_stick_up_orientation
    rot_in,              \* rotation study: the coordinate before any rotation
    rot_cur,             \* rotation study: the coordinate after the rotations of rot_seq
    rot_seq,             \* rotation study: the orientations applied so far
    stick_timer,         \* time of the last handler run (static stick_timer)
    now,                 \* the millisecond timer (timer_read32)
    persisted,           \* the configuration block of the persistence store
    cal_run,             \* the readings calibrate_vikstik took at startup
    last_raw,            \* the raw reading of the last observed tick, if any
    probe,               \* function study: the last call, its arguments and result
    released             \* the user has let go of the stick for good

vars == <<mode, up_orientation, vikstik_calibration, px, py, held, axis, layer,
          events, effect, last_op, prev_px, prev_py, mode_hist, last_step,
          rot_in, rot_cur, rot_seq, stick_timer, now, persisted, cal_run,
          last_raw, probe, released>>

----------------------------------------------------------------------------
(* Program constants *)

CALIBRATION_SAMPLE_COUNT == 100
FIXED_POINT_SCALE == 1024
ANGLE_DIVISIONS == 16

DIR_R == 0
DIR_RRU == 23
DIR_RU == 45
DIR_UUR == 68
DIR_U == 90
DIR_UUL == 113
DIR_UL == 135
DIR_ULL == 158
DIR_L == 180
DIR_LLD == 203
DIR_LD == 225
DIR_DDL == 248
DIR_D == 270
DIR_DDR == 293
DIR_DR == 315
DIR_DRR == 338

JS_RIGHT == 0
JS_UP == 1
JS_LEFT == 2
JS_DOWN == 3
ORIENTATION_COUNT == 4

VIKSTIK_SM_ANALOG == 0
VIKSTIK_SM_WASD == 1
VIKSTIK_SM_ARROWS == 2
VIKSTIK_SM_END == 3

_QWERTY == 0
_COLEMAK == 1
_LOWER == 2
_RAISE == 3
_ADJUST == 4

JS_10BIT_SYM8BIT ==
    [actuation_point |-> 40, deadzone_inner |-> 60, deadzone_outer |-> 60,
     out_min |-> -127, out_max |-> 127,
     raw_min |-> 0, raw_max |-> 1023, stick_timer_ms |-> 5]

js_profile == JS_10BIT_SYM8BIT

----------------------------------------------------------------------------
(* C arithmetic *)

Abs(v) == IF v < 0 THEN -v ELSE v

\* C integer division truncates toward zero
CDiv(a, b) ==
    IF (a < 0) = (b < 0) THEN Abs(a) \div Abs(b) ELSE -(Abs(a) \div Abs(b))

\* C remainder has the sign of the dividend
CMod(a, b) == a - b * CDiv(a, b)

ToInt8(v) == ((v + 128) % 256) - 128
ToInt16(v) == ((v + 32768) % 65536) - 32768
ToUint8(v) == v % 256
ToUint16(v) == v % 65536

Coord(x, y) == [x_coordinate |-> x, y_coordinate |-> y]

\* Sum and maximum of s[lo..hi] (lo <= hi), by halves
RECURSIVE SumSeq(_, _, _)
SumSeq(s, lo, hi) ==
    IF lo > hi THEN 0
    ELSE IF lo = hi THEN s[lo]
    ELSE LET mid == (lo + hi) \div 2
         IN  SumSeq(s, lo, mid) + SumSeq(s, mid + 1, hi)

Max2(a, b) == IF a > b THEN a ELSE b

RECURSIVE MaxSeq(_, _, _)
MaxSeq(s, lo, hi) ==
    IF lo = hi THEN s[lo]
    ELSE LET mid == (lo + hi) \div 2
         IN  Max2(MaxSeq(s, lo, mid), MaxSeq(s, mid + 1, hi))

----------------------------------------------------------------------------
(* Calibration *)

\* What the quotient of line 93 can be when its divisor is zero (undefined
\* behaviour): the 0 of a non-trapping divide instruction or library routine,
\* or what is left in the result register
DivZeroScales == {0, -1, 2147483647}

\* A calibration that takes the deadzone of the profile as it is
calibrate_vikstik_unwidened(samples) ==
    LET ideal_neutral == ToInt16(CDiv(js_profile.raw_min + js_profile.raw_max, 2))
        xs == [i \in 1..Len(samples) |-> samples[i][1]]
        ys == [i \in 1..Len(samples) |-> samples[i][2]]
        total_x == SumSeq(xs, 1, Len(xs))
        total_y == SumSeq(ys, 1, Len(ys))
        max_neutral_x == Max2(0, MaxSeq(xs, 1, Len(xs)))
        max_neutral_y == Max2(0, MaxSeq(ys, 1, Len(ys)))
        x_neutral == ToInt16(CDiv(total_x, CALIBRATION_SAMPLE_COUNT))
        y_neutral == ToInt16(CDiv(total_y, CALIBRATION_SAMPLE_COUNT))
        max_neutral == ToUint16(IF max_neutral_x > max_neutral_y
                                THEN max_neutral_x ELSE max_neutral_y)
        x_drift == ToInt16(Abs(x_neutral - ideal_neutral))
        y_drift == ToInt16(Abs(y_neutral - ideal_neutral))
        min_deadzone_inner == IF x_drift > y_drift THEN x_drift ELSE y_drift
        divisor == js_profile.raw_max - max_neutral
        scale_factors == IF divisor = 0 THEN DivZeroScales
                         ELSE {CDiv(FIXED_POINT_SCALE * js_profile.out_max, divisor)}
    IN  {[x_neutral |-> x_neutral,
          y_neutral |-> y_neutral,
          scale_factor |-> scale_factor,
          deadzone_inner |-> ToInt16(js_profile.deadzone_inner),
          deadzone_outer |-> ToInt16(js_profile.deadzone_outer)]
         : scale_factor \in scale_factors}

\* A calibration that takes the first reading as the neutral
calibrate_vikstik_first_sample(samples) ==
    LET ideal_neutral == ToInt16(CDiv(js_profile.raw_min + js_profile.raw_max, 2))
        xs == [i \in 1..Len(samples) |-> samples[i][1]]
        ys == [i \in 1..Len(samples) |-> samples[i][2]]
        total_x == SumSeq(xs, 1, Len(xs))
        total_y == SumSeq(ys, 1, Len(ys))
        max_neutral_x == Max2(0, MaxSeq(xs, 1, Len(xs)))
        max_neutral_y == Max2(0, MaxSeq(ys, 1, Len(ys)))
        x_neutral == ToInt16(samples[1][1])
        y_neutral == ToInt16(samples[1][2])
        max_neutral == ToUint16(IF max_neutral_x > max_neutral_y
                                THEN max_neutral_x ELSE max_neutral_y)
        x_drift == ToInt16(Abs(x_neutral - ideal_neutral))
        y_drift == ToInt16(Abs(y_neutral - ideal_neutral))
        min_deadzone_inner == IF x_drift > y_drift THEN x_drift ELSE y_drift
        divisor == js_profile.raw_max - max_neutral
        scale_factors == IF divisor = 0 THEN DivZeroScales
                         ELSE {CDiv(FIXED_POINT_SCALE * js_profile.out_max, divisor)}
    IN  {[x_neutral |-> x_neutral,
          y_neutral |-> y_neutral,
          scale_factor |-> scale_factor,
          deadzone_inner |-> ToInt16(IF min_deadzone_inner > js_profile.deadzone_inner
                                     THEN min_deadzone_inner
                                     ELSE js_profile.deadzone_inner),
          deadzone_outer |-> ToInt16(js_profile.deadzone_outer)]
         : scale_factor \in scale_factors}

\* samples: the CALIBRATION_SAMPLE_COUNT readings <<x, y>> of the loop;
\* the set of calibrations the call can leave
calibrate_vikstik(samples) ==
    LET ideal_neutral == ToInt16(CDiv(js_profile.raw_min + js_profile.raw_max, 2))
        xs == [i \in 1..Len(samples) |-> samples[i][1]]
        ys == [i \in 1..Len(samples) |-> samples[i][2]]
        total_x == SumSeq(xs, 1, Len(xs))
        total_y == SumSeq(ys, 1, Len(ys))
        max_neutral_x == Max2(0, MaxSeq(xs, 1, Len(xs)))
        max_neutral_y == Max2(0, MaxSeq(ys, 1, Len(ys)))
        x_neutral == ToInt16(CDiv(total_x, CALIBRATION_SAMPLE_COUNT))
        y_neutral == ToInt16(CDiv(total_y, CALIBRATION_SAMPLE_COUNT))
        max_neutral == ToUint16(IF max_neutral_x > max_neutral_y
                                THEN max_neutral_x ELSE max_neutral_y)
        x_drift == ToInt16(Abs(x_neutral - ideal_neutral))
        y_drift == ToInt16(Abs(y_neutral - ideal_neutral))
        min_deadzone_inner == IF x_drift > y_drift THEN x_drift ELSE y_drift
        divisor == js_profile.raw_max - max_neutral
        scale_factors == IF divisor = 0 THEN DivZeroScales
                         ELSE {CDiv(FIXED_POINT_SCALE * js_profile.out_max, divisor)}
    IN  {[x_neutral |-> x_neutral,
          y_neutral |-> y_neutral,
          scale_factor |-> scale_factor,
          deadzone_inner |-> ToInt16(IF min_deadzone_inner > js_profile.deadzone_inner
                                     THEN min_deadzone_inner
                                     ELSE js_profile.deadzone_inner),
          deadzone_outer |-> ToInt16(js_profile.deadzone_outer)]
         : scale_factor \in scale_factors}

----------------------------------------------------------------------------
(* Coordinate transform *)

INT32_MAX == 2147483647

\* What an int16_t can hold after a signed 32-bit product overflowed
\* (undefined behaviour): representatives of the whole int16_t range
OverflowOutcomes == {-32768, -128, -1, 0, 1, 128, 32767}

\* A clamp that lost its lower bound
clamp_upper(val, min, max) ==
    IF val > max THEN max ELSE val

clamp(val, min, max) ==
    IF val < min THEN min ELSE (IF val > max THEN max ELSE val)

\* v * scale_factor / FIXED_POINT_SCALE, stored to an int16_t: the values
\* the store can hold
scale_axis(v) ==
    LET scale_factor == vikstik_calibration.scale_factor
    IN  IF scale_factor # 0 /\ Abs(v) > INT32_MAX \div Abs(scale_factor)
        THEN OverflowOutcomes
        ELSE {ToInt16(CDiv(v * scale_factor, FIXED_POINT_SCALE))}

\* A deadzone test against the radius instead of its square
apply_scaling_and_deadzone_radius(raw_coordinates) ==
    LET x == ToInt16(raw_coordinates.x_coordinate - vikstik_calibration.x_neutral)
        y == ToInt16(raw_coordinates.y_coordinate - vikstik_calibration.y_neutral)
        distance_sq == x * x + y * y
        inside == distance_sq < vikstik_calibration.deadzone_inner
    IN  IF inside THEN {Coord(0, 0)}
        ELSE {Coord(clamp(sx, js_profile.out_min, js_profile.out_max),
                    clamp(sy, js_profile.out_min, js_profile.out_max))
              : sx \in scale_axis(x), sy \in scale_axis(y)}

\* The coordinates the call can return
apply_scaling_and_deadzone(raw_coordinates) ==
    LET x == ToInt16(raw_coordinates.x_coordinate - vikstik_calibration.x_neutral)
        y == ToInt16(raw_coordinates.y_coordinate - vikstik_calibration.y_neutral)
        distance_sq == x * x + y * y
        inside == distance_sq <
                  vikstik_calibration.deadzone_inner * vikstik_calibration.deadzone_inner
    IN  IF inside THEN {Coord(0, 0)}
        ELSE {Coord(clamp(sx, js_profile.out_min, js_profile.out_max),
                    clamp(sy, js_profile.out_min, js_profile.out_max))
              : sx \in scale_axis(x), sy \in scale_axis(y)}

\* A rotation that loses the x coordinate for JS_LEFT (copy-paste slip)
handle_rotation_lossy(coordinates) ==
    CASE up_orientation = JS_LEFT ->
            Coord(ToInt16(-coordinates.y_coordinate), coordinates.y_coordinate)
      [] up_orientation = JS_DOWN ->
            Coord(ToInt16(-coordinates.x_coordinate), ToInt16(-coordinates.y_coordinate))
      [] up_orientation = JS_RIGHT ->
            Coord(coordinates.y_coordinate, ToInt16(-coordinates.x_coordinate))
      [] OTHER -> Coord(coordinates.x_coordinate, coordinates.y_coordinate)

\* A rotation whose JS_LEFT case lost its sign: it mirrors instead of turning
handle_rotation_mirror(coordinates) ==
    CASE up_orientation = JS_LEFT ->
            Coord(coordinates.y_coordinate, coordinates.x_coordinate)
      [] up_orientation = JS_DOWN ->
            Coord(ToInt16(-coordinates.x_coordinate), ToInt16(-coordinates.y_coordinate))
      [] up_orientation = JS_RIGHT ->
            Coord(coordinates.y_coordinate, ToInt16(-coordinates.x_coordinate))
      [] OTHER -> Coord(coordinates.x_coordinate, coordinates.y_coordinate)

handle_rotation(coordinates) ==
    CASE up_orientation = JS_LEFT ->
            Coord(ToInt16(-coordinates.y_coordinate), coordinates.x_coordinate)
      [] up_orientation = JS_DOWN ->
            Coord(ToInt16(-coordinates.x_coordinate), ToInt16(-coordinates.y_coordinate))
      [] up_orientation = JS_RIGHT ->
            Coord(coordinates.y_coordinate, ToInt16(-coordinates.x_coordinate))
      [] OTHER -> Coord(coordinates.x_coordinate, coordinates.y_coordinate)

\* The coordinates the call can return for the reading raw
read_vikstik(raw) ==
    {LET rotated == handle_rotation(scaled)
     IN  Coord(clamp(rotated.x_coordinate, js_profile.out_min, js_profile.out_max),
               clamp(rotated.y_coordinate, js_profile.out_min, js_profile.out_max))
     : scaled \in apply_scaling_and_deadzone(raw)}

----------------------------------------------------------------------------
(* Direction / angle quantizer (VIKSTIK_LITE_ENABLE build) *)

angle_to_direction ==
    <<DIR_R, DIR_RRU, DIR_RU, DIR_UUR,
      DIR_U, DIR_UUL, DIR_UL, DIR_ULL,
      DIR_L, DIR_LLD, DIR_LD, DIR_DDL,
      DIR_D, DIR_DDR, DIR_DR, DIR_DRR>>

get_stick_up_orientation == ToInt8(up_orientation)

get_stick_up_angle == ToInt16(up_orientation * 90)

\* The index octant * 2 + fine that calculate_angle_lite reads the table at
\* (coordinates not both zero)
dir_index(coordinates) ==
    LET x == coordinates.x_coordinate
        y == coordinates.y_coordinate
        octant == (IF y < 0 THEN 4 ELSE 0) + (IF x < 0 THEN 2 ELSE 0)
                  + (IF Abs(y) > Abs(x) THEN 1 ELSE 0)
        ratio == IF octant % 2 = 1
                 THEN ToUint16((Abs(x) * 256) \div Abs(y))
                 ELSE ToUint16((Abs(y) * 256) \div Abs(x))
        fine == IF ratio > 181 THEN 2 ELSE (IF ratio > 106 THEN 1 ELSE 0)
    IN  ToUint8(octant * 2 + fine)

\* What a read past the end of angle_to_direction can leave in the int16_t
\* angle (undefined behaviour): representatives of the int16_t range
OutOfTableAngles == {-1, 0, 90, 360, 32767}

\* The angles the call can return
calculate_angle_lite(coordinates, rotate) ==
    LET x == coordinates.x_coordinate
        y == coordinates.y_coordinate
        index == dir_index(coordinates)
        angles == IF index < ANGLE_DIVISIONS
                  THEN {angle_to_direction[index + 1]}
                  ELSE OutOfTableAngles
    IN  IF x = 0 /\ y = 0 THEN {0}
        ELSE IF rotate
             THEN {ToInt16(CMod(angle - get_stick_up_angle + 360, 360)) : angle \in angles}
        ELSE angles

calculate_angle(coordinates, rotate) == calculate_angle_lite(coordinates, rotate)

\* The sector test of calculate_raw_direction on one angle
direction_of_angle(angle) ==
    CASE angle >= DIR_UUR /\ angle < DIR_UUL -> JS_UP
      [] angle >= DIR_ULL /\ angle < DIR_LLD -> JS_LEFT
      [] angle >= DIR_DDL /\ angle < DIR_DDR -> JS_DOWN
      [] (angle > DIR_DRR /\ angle <= 360)
         \/ (angle >= DIR_R /\ angle < DIR_RRU) -> JS_RIGHT
      [] OTHER -> -1

\* The directions the call can return for the reading raw_coordinates
calculate_raw_direction(raw_coordinates) ==
    UNION {IF scaled_coordinates.x_coordinate # 0 /\ scaled_coordinates.y_coordinate # 0
           THEN {direction_of_angle(angle)
                 : angle \in calculate_angle(scaled_coordinates, FALSE)}
           ELSE {-1}
           : scaled_coordinates \in apply_scaling_and_deadzone(raw_coordinates)}

\* A correction that turns the direction without testing it for -1
calculate_direction_unguarded(rotate, raw) ==
    {IF rotate
     THEN CASE up_orientation = JS_LEFT -> (direction + 3) % ORIENTATION_COUNT
            [] up_orientation = JS_DOWN -> (direction + 2) % ORIENTATION_COUNT
            [] up_orientation = JS_RIGHT -> (direction + 1) % ORIENTATION_COUNT
            [] OTHER -> direction
     ELSE direction
     : direction \in calculate_raw_direction(raw)}

\* The directions the call can return for the reading raw
calculate_direction(rotate, raw) ==
    {IF rotate /\ direction > -1
     THEN CASE up_orientation = JS_LEFT -> (direction + 3) % ORIENTATION_COUNT
            [] up_orientation = JS_DOWN -> (direction + 2) % ORIENTATION_COUNT
            [] up_orientation = JS_RIGHT -> (direction + 1) % ORIENTATION_COUNT
            [] OTHER -> direction
     ELSE direction
     : direction \in calculate_raw_direction(raw)}

----------------------------------------------------------------------------
(* Edge-triggered key mapper *)

KC_W == "KC_W"
KC_A == "KC_A"
KC_S == "KC_S"
KC_D == "KC_D"
KC_UP == "KC_UP"
KC_LEFT == "KC_LEFT"
KC_DOWN == "KC_DOWN"
KC_RGHT == "KC_RGHT"

Register(k) == [ev |-> "register", key |-> k]
Unregister(k) == [ev |-> "unregister", key |-> k]

\* tri-state of an axis value: 1 positive, -1 negative, 0 neutral
AxisState(v) ==
    (IF v > js_profile.actuation_point THEN 1 ELSE 0)
    - (IF v < -js_profile.actuation_point THEN 1 ELSE 0)

\* A level-triggered mapper: the comparison with prev_state is missing
handle_axis_level(curr, prev, pos_key, neg_key) ==
    LET curr_state == AxisState(curr)
        prev_state == AxisState(prev)
        should_register == (curr_state # 0)
        key_to_handle == IF should_register
                         THEN (IF curr_state > 0 THEN pos_key ELSE neg_key)
                         ELSE (IF prev_state > 0 THEN pos_key ELSE neg_key)
    IN  IF should_register THEN <<Register(key_to_handle)>>
        ELSE <<Unregister(key_to_handle)>>

\* The key events one handle_axis call emits, in order
handle_axis(curr, prev, pos_key, neg_key) ==
    LET curr_state == AxisState(curr)
        prev_state == AxisState(prev)
        should_register == (curr_state # 0)
        key_to_handle == IF should_register
                         THEN (IF curr_state > 0 THEN pos_key ELSE neg_key)
                         ELSE (IF prev_state > 0 THEN pos_key ELSE neg_key)
    IN  IF curr_state # prev_state
        THEN IF should_register THEN <<Register(key_to_handle)>>
             ELSE <<Unregister(key_to_handle)>>
        ELSE <<>>

\* The host's set of keys that are down after the events evs
RECURSIVE ApplyEvents(_, _)
ApplyEvents(h, evs) ==
    IF evs = <<>> THEN h
    ELSE ApplyEvents(IF Head(evs).ev = "register"
                     THEN h \cup {Head(evs).key}
                     ELSE h \ {Head(evs).key},
                     Tail(evs))

handle_vikstik_keys_4(x, y, u, l, d, r) ==
    LET evs == handle_axis(y, py, u, d) \o handle_axis(x, px, r, l)
    IN  /\ events' = evs
        /\ held' = ApplyEvents(held, evs)
        /\ prev_px' = px
        /\ prev_py' = py
        /\ px' = x
        /\ py' = y
        /\ UNCHANGED axis

\* An analog handler that also runs the key mapper
handle_analog_keys(x, y) ==
    /\ axis' = <<x, y>>
    /\ events' = handle_axis(y, py, KC_UP, KC_DOWN) \o handle_axis(x, px, KC_RGHT, KC_LEFT)
    /\ UNCHANGED <<held, px, py, prev_px, prev_py>>

handle_analog(x, y) ==
    /\ axis' = <<x, y>>
    /\ events' = <<>>
    /\ UNCHANGED <<held, px, py, prev_px, prev_py>>

handle_wasd(x, y) == handle_vikstik_keys_4(x, y, KC_W, KC_A, KC_S, KC_D)

\* An arrows handler with the two axes swapped
handle_arrows_swapped(x, y) == handle_vikstik_keys_4(y, x, KC_UP, KC_LEFT, KC_DOWN, KC_RGHT)

handle_arrows(x, y) == handle_vikstik_keys_4(x, y, KC_UP, KC_LEFT, KC_DOWN, KC_RGHT)

\* The handler table, by mode
stick_modes(m, x, y) ==
    CASE m = VIKSTIK_SM_ANALOG -> handle_analog(x, y)
      [] m = VIKSTIK_SM_WASD -> handle_wasd(x, y)
      [] m = VIKSTIK_SM_ARROWS -> handle_arrows(x, y)

stick_mode_names == <<"handle_analog", "handle_wasd", "handle_arrows">>

----------------------------------------------------------------------------
(* Layer effects *)

handle_lower_layer_rgb(direction) ==
    CASE direction = JS_UP -> "fp_rgblight_step"
      [] direction = JS_DOWN -> "fp_rgblight_step_reverse"
      [] direction = JS_RIGHT -> "fp_rgblight_increase_val"
      [] direction = JS_LEFT -> "fp_rgblight_decrease_val"
      [] OTHER -> "none"

handle_raise_layer_rgb(direction) ==
    CASE direction = JS_UP -> "fp_rgblight_increase_sat"
      [] direction = JS_DOWN -> "fp_rgblight_decrease_sat"
      [] direction = JS_RIGHT -> "fp_rgblight_increase_hue"
      [] direction = JS_LEFT -> "fp_rgblight_decrease_hue"
      [] OTHER -> "none"

handle_adjust_layer_rgb(direction) ==
    CASE direction = JS_UP -> "rgb_matrix_enable"
      [] direction = JS_DOWN -> "rgb_matrix_disable"
      [] direction = JS_RIGHT -> "rgb_matrix_increase_speed"
      [] direction = JS_LEFT -> "rgb_matrix_decrease_speed"
      [] OTHER -> "none"

----------------------------------------------------------------------------
(* Inputs *)

\* Raw readings of one axis: with the neutral at 512 and scale_factor 254
\* they scale to -41, 0, 40 (not past the actuation point) and 41
RawAxisSamples == {346, 512, 674, 678}

\* The stick pushed along one axis, and into a corner
RawSamples ==
    {Coord(x, 512) : x \in RawAxisSamples}
    \cup {Coord(512, y) : y \in RawAxisSamples \ {674}}
    \cup {Coord(678, 678)}

\* A calibration run: the stick reads a for the first n samples, b afterwards
CalRun(a, b, n) == [first |-> a, rest |-> b, n |-> n]

\* The CALIBRATION_SAMPLE_COUNT readings <<x, y>> of the run
Samples(run) ==
    [i \in 1..CALIBRATION_SAMPLE_COUNT |-> IF i <= run.n THEN run.first ELSE run.rest]

\* The readings calibrate_vikstik takes at startup: a stick at rest
CalibrationRuns == {CalRun(<<512, 512>>, <<512, 512>>, CALIBRATION_SAMPLE_COUNT)}

\* The highest active layers the layer keys select
Layers == {_QWERTY, _LOWER}

----------------------------------------------------------------------------
(* Operations *)

rot_vars == <<rot_in, rot_cur, rot_seq>>

study_vars == <<last_step, rot_vars>>

\* The timer, the persistence store and the observations of the studies below
ext_vars == <<stick_timer, now, persisted, cal_run, last_raw, probe, released>>

\* A tick that runs the handler of the mode whatever the active layer
handle_vikstik_unrouted(raw) ==
    /\ IF mode < VIKSTIK_SM_END
       THEN \E coordinates \in read_vikstik(raw) :
                /\ stick_modes(mode, ToInt8(coordinates.x_coordinate),
                               ToInt8(coordinates.y_coordinate))
                /\ last_op' = stick_mode_names[mode + 1]
                /\ effect' = "none"
       ELSE /\ events' = <<>>
            /\ effect' = "none"
            /\ last_op' = "handle_vikstik"
            /\ UNCHANGED <<held, px, py, prev_px, prev_py, axis>>
    /\ UNCHANGED <<mode, up_orientation, vikstik_calibration, layer, mode_hist, study_vars>>

\* handle_vikstik: one gated tick of process_vikstik reading the sample raw
handle_vikstik(raw) ==
    /\ IF layer < _LOWER
       THEN IF mode < VIKSTIK_SM_END
            THEN \E coordinates \in read_vikstik(raw) :
                     /\ stick_modes(mode, ToInt8(coordinates.x_coordinate),
                                    ToInt8(coordinates.y_coordinate))
                     /\ last_op' = stick_mode_names[mode + 1]
                     /\ effect' = "none"
            ELSE /\ events' = <<>>
                 /\ effect' = "none"
                 /\ last_op' = "handle_vikstik"
                 /\ UNCHANGED <<held, px, py, prev_px, prev_py, axis>>
       ELSE \E direction \in {ToInt8(d) : d \in calculate_direction(TRUE, raw)} :
                /\ effect' = CASE layer = _LOWER -> handle_lower_layer_rgb(direction)
                               [] layer = _RAISE -> handle_raise_layer_rgb(direction)
                               [] layer = _ADJUST -> handle_adjust_layer_rgb(direction)
                               [] OTHER -> "none"
                /\ events' = <<>>
                /\ last_op' = "layer_rgb"
                /\ UNCHANGED <<held, px, py, prev_px, prev_py, axis>>
    /\ UNCHANGED <<mode, up_orientation, vikstik_calibration, layer, mode_hist, study_vars>>

\* A step that forgets to wrap around
step_stick_mode_nowrap ==
    /\ axis' = <<0, 0>>
    /\ mode' = ToUint8(mode + 1)
    /\ mode_hist' = IF Len(mode_hist) < VIKSTIK_SM_END
                    THEN Append(mode_hist, mode)
                    ELSE Append(Tail(mode_hist), mode)
    /\ events' = <<>>
    /\ effect' = "none"
    /\ last_op' = "step_stick_mode"
    /\ UNCHANGED <<up_orientation, vikstik_calibration, px, py, held, layer,
                   prev_px, prev_py, study_vars>>

step_stick_mode ==
    /\ axis' = <<0, 0>>
    /\ mode' = ToUint8((mode + 1) % VIKSTIK_SM_END)
    /\ mode_hist' = IF Len(mode_hist) < VIKSTIK_SM_END
                    THEN Append(mode_hist, mode)
                    ELSE Append(Tail(mode_hist), mode)
    /\ events' = <<>>
    /\ effect' = "none"
    /\ last_op' = "step_stick_mode"
    /\ UNCHANGED <<up_orientation, vikstik_calibration, px, py, held, layer,
                   prev_px, prev_py, study_vars>>

\* The values a cast to vikstik_up_orientation can yield once stored in the
\* int16_t field: the enum has no negative enumerator, so its type is unsigned,
\* 8 bits wide in a build with short enums and 32 bits wide otherwise (the
\* store then wraps to 16 bits again)
EnumCast(v) == {ToUint8(v), ToInt16(v)}

set_stick_up_orientation(o) ==
    /\ up_orientation' = ToInt16(o)
    /\ events' = <<>>
    /\ effect' = "none"
    /\ UNCHANGED <<mode, vikstik_calibration, px, py, held, axis, layer,
                   prev_px, prev_py, mode_hist, rot_vars>>

\* read_vikstik's rotation step on the coordinate under study
rotate_coordinate ==
    /\ rot_cur' = handle_rotation(rot_cur)
    /\ rot_seq' = Append(rot_seq, up_orientation)
    /\ UNCHANGED <<mode, up_orientation, vikstik_calibration, px, py, held, axis,
                   layer, events, effect, last_op, prev_px, prev_py, mode_hist,
                   last_step, rot_in>>

step_stick_up_orientation(step) ==
    /\ last_step' = <<up_orientation, step>>
    /\ \E new_orientation \in
            EnumCast(CMod(get_stick_up_orientation + step, ORIENTATION_COUNT)) :
          set_stick_up_orientation(new_orientation)
    /\ last_op' = "step_stick_up_orientation"

\* layer_on / layer_off of the keymap change the highest active layer
layer_change(l) ==
    /\ l # layer
    /\ layer' = l
    /\ events' = <<>>
    /\ effect' = "none"
    /\ last_op' = "layer_change"
    /\ UNCHANGED <<mode, up_orientation, vikstik_calibration, px, py, held, axis,
                   prev_px, prev_py, mode_hist, study_vars>>

----------------------------------------------------------------------------
(* The keyboard: startup, then ticks, mode / orientation keys, layer keys *)

\* Build options of the keymap: the stick starts in analog mode, installed upright
JS_MODE == VIKSTIK_SM_ANALOG
JS_UP_ORIENTATION == JS_UP

\* The configuration keyboard_post_init_user assigns
DefaultConfig == [mode |-> JS_MODE, up_orientation |-> JS_UP_ORIENTATION]

\* No function call under study yet
NoProbe == [fn |-> "none"]

\* keyboard_post_init_user
Init ==
    /\ cal_run \in CalibrationRuns
    /\ vikstik_calibration \in calibrate_vikstik(Samples(cal_run))
    /\ stick_timer = 0
    /\ now = 0
    /\ persisted = DefaultConfig
    /\ last_raw = <<>>
    /\ released = FALSE
    /\ probe = NoProbe
    /\ mode = JS_MODE
    /\ up_orientation = JS_UP_ORIENTATION
    /\ px = 0
    /\ py = 0
    /\ held = {}
    /\ axis = <<0, 0>>
    /\ layer = _QWERTY
    /\ events = <<>>
    /\ effect = "none"
    /\ last_op = "keyboard_post_init_user"
    /\ prev_px = 0
    /\ prev_py = 0
    /\ mode_hist = <<>>
    /\ last_step = <<JS_UP_ORIENTATION, 0>>
    /\ rot_in = Coord(0, 0)
    /\ rot_cur = Coord(0, 0)
    /\ rot_seq = <<>>

Tick ==
    /\ \E raw \in RawSamples : handle_vikstik(raw)
    /\ UNCHANGED ext_vars

StepMode ==
    /\ step_stick_mode
    /\ UNCHANGED ext_vars

StepOrientation ==
    /\ \E step \in {1, -1} : step_stick_up_orientation(step)
    /\ UNCHANGED ext_vars

LayerChange ==
    /\ \E l \in Layers : layer_change(l)
    /\ UNCHANGED ext_vars

Next == Tick \/ StepMode \/ LayerChange

Spec == Init /\ [][Next]_vars

\* The orientation key: ticks and orientation steps
NextOrient == Tick \/ StepOrientation

SpecOrient == Init /\ [][NextOrient]_vars

----------------------------------------------------------------------------
(* The rotation on its own: a coordinate of the output range is turned by     *)
(* handle_rotation under orientations chosen with set_stick_up_orientation    *)

MaxRotations == 5

OutSamples == {js_profile.out_min, -40, 0, 41, js_profile.out_max}

Orientations == {JS_RIGHT, JS_UP, JS_LEFT, JS_DOWN}

InitRot ==
    /\ cal_run \in CalibrationRuns
    /\ vikstik_calibration \in calibrate_vikstik(Samples(cal_run))
    /\ stick_timer = 0
    /\ now = 0
    /\ persisted = DefaultConfig
    /\ last_raw = <<>>
    /\ released = FALSE
    /\ probe = NoProbe
    /\ mode = JS_MODE
    /\ up_orientation = JS_UP_ORIENTATION
    /\ px = 0
    /\ py = 0
    /\ held = {}
    /\ axis = <<0, 0>>
    /\ layer = _QWERTY
    /\ events = <<>>
    /\ effect = "none"
    /\ last_op = "keyboard_post_init_user"
    /\ prev_px = 0
    /\ prev_py = 0
    /\ mode_hist = <<>>
    /\ last_step = <<JS_UP_ORIENTATION, 0>>
    /\ \E x \in OutSamples, y \in OutSamples : rot_in = Coord(x, y)
    /\ rot_cur = rot_in
    /\ rot_seq = <<>>

SetOrientation ==
    \E o \in Orientations :
        /\ set_stick_up_orientation(o)
        /\ UNCHANGED <<last_op, last_step, ext_vars>>

Rotate ==
    /\ Len(rot_seq) < MaxRotations
    /\ rotate_coordinate
    /\ UNCHANGED ext_vars

NextRot == SetOrientation \/ Rotate

SpecRot == InitRot /\ [][NextRot]_vars

----------------------------------------------------------------------------
(* The coordinate transform on its own: after a calibration run and under an  *)
(* orientation, read_vikstik and calculate_raw_direction are called on raw    *)
(* readings                                                                   *)

\* Calibration runs: the stick at rest at the centre; at rest off centre;
\* jittering around the centre; one reading one count below raw_max; one
\* reading at raw_max; a 12-bit converter resting at 2048; a stick held
\* in one corner for a third of the run and in the opposite corner afterwards
PipeCalibrationRuns ==
    {CalRun(<<512, 512>>, <<512, 512>>, CALIBRATION_SAMPLE_COUNT),
     CalRun(<<1022, 0>>, <<0, 1022>>, 33),
     CalRun(<<600, 440>>, <<600, 440>>, CALIBRATION_SAMPLE_COUNT),
     CalRun(<<510, 514>>, <<514, 510>>, 50),
     CalRun(<<1022, 512>>, <<512, 512>>, 1),
     CalRun(<<1023, 512>>, <<512, 512>>, 1),
     CalRun(<<2048, 2048>>, <<2048, 2048>>, CALIBRATION_SAMPLE_COUNT)}

\* Raw readings of one axis: the ends of the int16_t range, the ends of the
\* 10-bit range, the centre, readings around the deadzone radius of 60 and
\* a moderate push
PipeAxisSamples == {-32768, 0, 512, 522, 571, 572, 700, 1023, 32767}

PipeSamples == {Coord(x, y) : x \in PipeAxisSamples, y \in PipeAxisSamples}

\* Everything but the function study's observation
unprobed_vars ==
    <<mode, up_orientation, vikstik_calibration, px, py, held, axis, layer,
      events, effect, last_op, prev_px, prev_py, mode_hist, study_vars,
      stick_timer, now, persisted, cal_run, last_raw, released>>

InitPipe ==
    /\ cal_run \in PipeCalibrationRuns
    /\ vikstik_calibration \in calibrate_vikstik(Samples(cal_run))
    /\ mode = JS_MODE
    /\ up_orientation \in Orientations
    /\ px = 0
    /\ py = 0
    /\ held = {}
    /\ axis = <<0, 0>>
    /\ layer = _QWERTY
    /\ events = <<>>
    /\ effect = "none"
    /\ last_op = "keyboard_post_init_user"
    /\ prev_px = 0
    /\ prev_py = 0
    /\ mode_hist = <<>>
    /\ last_step = <<up_orientation, 0>>
    /\ rot_in = Coord(0, 0)
    /\ rot_cur = Coord(0, 0)
    /\ rot_seq = <<>>
    /\ stick_timer = 0
    /\ now = 0
    /\ persisted = DefaultConfig
    /\ last_raw = <<>>
    /\ released = FALSE
    /\ probe = NoProbe

\* A call of read_vikstik while the converter reads raw
ReadVikstik ==
    /\ probe = NoProbe
    /\ \E raw \in PipeSamples :
          \E coordinates \in read_vikstik(raw) :
             probe' = [fn |-> "read_vikstik", raw |-> raw, result |-> coordinates]
    /\ UNCHANGED unprobed_vars

\* A call of calculate_raw_direction while the converter reads raw
RawDirection ==
    /\ probe = NoProbe
    /\ \E raw \in PipeSamples :
          \E direction \in calculate_raw_direction(raw) :
             probe' = [fn |-> "calculate_raw_direction", raw |-> raw,
                       result |-> direction]
    /\ UNCHANGED unprobed_vars

\* A call of calculate_direction while the converter reads raw
Direction ==
    /\ probe = NoProbe
    /\ \E raw \in PipeSamples, rotate \in BOOLEAN :
          \E direction \in calculate_direction(rotate, raw) :
             probe' = [fn |-> "calculate_direction", raw |-> raw, rotate |-> rotate,
                       result |-> direction]
    /\ UNCHANGED unprobed_vars

\* A call of apply_scaling_and_deadzone on the reading raw
ApplyScaling ==
    /\ probe = NoProbe
    /\ \E raw \in PipeSamples :
          \E coordinates \in apply_scaling_and_deadzone(raw) :
             probe' = [fn |-> "apply_scaling_and_deadzone", raw |-> raw,
                       result |-> coordinates]
    /\ UNCHANGED unprobed_vars

NextPipe == ReadVikstik \/ RawDirection \/ Direction \/ ApplyScaling

SpecPipe == InitPipe /\ [][NextPipe]_vars

----------------------------------------------------------------------------
(* Polling with the reading on record: the stick upright, calibrated at the   *)
(* centre, on a base layer; ticks and the mode key                            *)

\* The stick at rest, pushed moderately along x (both ways) and along y
PollSamples ==
    {Coord(512, 512), Coord(700, 512), Coord(346, 512), Coord(512, 700)}

\* The layers below _LOWER
BaseLayers == {_QWERTY, _COLEMAK}

InitPoll ==
    /\ cal_run = CalRun(<<512, 512>>, <<512, 512>>, CALIBRATION_SAMPLE_COUNT)
    /\ vikstik_calibration \in calibrate_vikstik(Samples(cal_run))
    /\ mode = JS_MODE
    /\ up_orientation = JS_UP_ORIENTATION
    /\ px = 0
    /\ py = 0
    /\ held = {}
    /\ axis = <<0, 0>>
    /\ layer \in BaseLayers
    /\ events = <<>>
    /\ effect = "none"
    /\ last_op = "keyboard_post_init_user"
    /\ prev_px = 0
    /\ prev_py = 0
    /\ mode_hist = <<>>
    /\ last_step = <<JS_UP_ORIENTATION, 0>>
    /\ rot_in = Coord(0, 0)
    /\ rot_cur = Coord(0, 0)
    /\ rot_seq = <<>>
    /\ stick_timer = 0
    /\ now = 0
    /\ persisted = DefaultConfig
    /\ last_raw = <<>>
    /\ released = FALSE
    /\ probe = NoProbe

\* One gated tick; the reading is put on record
Poll ==
    /\ \E raw \in PollSamples :
          /\ handle_vikstik(raw)
          /\ last_raw' = <<raw>>
    /\ UNCHANGED <<stick_timer, now, persisted, cal_run, probe, released>>

NextPoll == Poll \/ StepMode

SpecPoll == InitPoll /\ [][NextPoll]_vars

----------------------------------------------------------------------------
(* The angle quantizer on its own: calculate_angle_lite is called on a        *)
(* coordinate of the output range under an orientation                        *)

\* Values of one output axis: the bounds, the actuation point's neighbours,
\* small values with ratios on both sides of the fine thresholds, zero
QuantAxisSamples == {-127, -64, -41, -17, -4, -3, -1, 0, 1, 3, 4, 17, 41, 64, 127}

QuantSamples == {Coord(x, y) : x \in QuantAxisSamples, y \in QuantAxisSamples}

InitQuant ==
    /\ cal_run = CalRun(<<512, 512>>, <<512, 512>>, CALIBRATION_SAMPLE_COUNT)
    /\ vikstik_calibration \in calibrate_vikstik(Samples(cal_run))
    /\ mode = JS_MODE
    /\ up_orientation \in Orientations
    /\ px = 0
    /\ py = 0
    /\ held = {}
    /\ axis = <<0, 0>>
    /\ layer = _QWERTY
    /\ events = <<>>
    /\ effect = "none"
    /\ last_op = "keyboard_post_init_user"
    /\ prev_px = 0
    /\ prev_py = 0
    /\ mode_hist = <<>>
    /\ last_step = <<up_orientation, 0>>
    /\ rot_in = Coord(0, 0)
    /\ rot_cur = Coord(0, 0)
    /\ rot_seq = <<>>
    /\ stick_timer = 0
    /\ now = 0
    /\ persisted = DefaultConfig
    /\ last_raw = <<>>
    /\ released = FALSE
    /\ probe = NoProbe

\* A call of calculate_angle_lite
AngleLite ==
    /\ probe = NoProbe
    /\ \E coordinates \in QuantSamples, rotate \in BOOLEAN :
          \E angle \in calculate_angle_lite(coordinates, rotate) :
             probe' = [fn |-> "calculate_angle_lite", coordinates |-> coordinates,
                       rotate |-> rotate, result |-> angle]
    /\ UNCHANGED unprobed_vars

\* The sector test of calculate_raw_direction on a bucket angle
DirectionOfAngle ==
    /\ probe = NoProbe
    /\ \E angle \in {angle_to_direction[i] : i \in 1..ANGLE_DIVISIONS} :
          probe' = [fn |-> "direction_of_angle", angle |-> angle,
                    result |-> direction_of_angle(angle)]
    /\ UNCHANGED unprobed_vars

NextQuant == AngleLite \/ DirectionOfAngle

SpecQuant == InitQuant /\ [][NextQuant]_vars

----------------------------------------------------------------------------
(* The timer gate: process_vikstik is called from the scan loop while the     *)
(* millisecond timer advances                                                 *)

MaxTime == 20

\* The millisecond timer: monotonic, read without wrap-around
timer_read32 == now

timer_elapsed(last) == timer_read32 - last

\* The stick at rest and pushed right
TimerSamples == {Coord(512, 512), Coord(700, 512)}

\* Everything the handler may change, but the timer
handler_vars ==
    <<mode, up_orientation, vikstik_calibration, px, py, held, axis, layer,
      prev_px, prev_py, mode_hist, study_vars>>

\* A gate that opens one millisecond early
process_vikstik_early(raw) ==
    /\ IF timer_elapsed(stick_timer) >= js_profile.stick_timer_ms
       THEN /\ stick_timer' = timer_read32
            /\ handle_vikstik(raw)
            /\ probe' = [fn |-> "process_vikstik", ran |-> TRUE,
                         elapsed |-> timer_elapsed(stick_timer)]
       ELSE /\ events' = <<>>
            /\ effect' = "none"
            /\ last_op' = "process_vikstik"
            /\ probe' = [fn |-> "process_vikstik", ran |-> FALSE,
                         elapsed |-> timer_elapsed(stick_timer)]
            /\ UNCHANGED <<stick_timer, handler_vars>>
    /\ UNCHANGED <<now, persisted, cal_run, last_raw, released>>

\* One call of process_vikstik while the converter reads raw; the call and
\* the time since the last handler run are put on record
process_vikstik(raw) ==
    /\ IF timer_elapsed(stick_timer) > js_profile.stick_timer_ms
       THEN /\ stick_timer' = timer_read32
            /\ handle_vikstik(raw)
            /\ probe' = [fn |-> "process_vikstik", ran |-> TRUE,
                         elapsed |-> timer_elapsed(stick_timer)]
       ELSE /\ events' = <<>>
            /\ effect' = "none"
            /\ last_op' = "process_vikstik"
            /\ probe' = [fn |-> "process_vikstik", ran |-> FALSE,
                         elapsed |-> timer_elapsed(stick_timer)]
            /\ UNCHANGED <<stick_timer, handler_vars>>
    /\ UNCHANGED <<now, persisted, cal_run, last_raw, released>>

ProcessVikstik == \E raw \in TimerSamples : process_vikstik(raw)

\* A millisecond passes
TimePasses ==
    /\ now < MaxTime
    /\ now' = now + 1
    /\ UNCHANGED <<handler_vars, events, effect, last_op, stick_timer, persisted,
                   cal_run, last_raw, probe, released>>

NextTimer == ProcessVikstik \/ TimePasses

SpecTimer == Init /\ [][NextTimer]_vars

----------------------------------------------------------------------------
(* The configuration and the persistence store: the keyboard starts with some *)
(* block in the store, then the mode and orientation keys are used            *)

\* A block of the store, laid out as vikstik_config_t
ConfigBlock(m, o) == [mode |-> m, up_orientation |-> o]

\* Blocks the store can hold at startup: the default, another valid
\* configuration, an orientation and a mode outside their enumerations, and
\* erased storage (all bits set)
PersistedBlocks ==
    {DefaultConfig,
     ConfigBlock(VIKSTIK_SM_ARROWS, JS_LEFT),
     ConfigBlock(VIKSTIK_SM_WASD, 7),
     ConfigBlock(9, JS_DOWN),
     ConfigBlock(255, -1)}

\* Both fields of the block are enumerators
ValidConfig(block) ==
    /\ block.mode \in VIKSTIK_SM_ANALOG..(VIKSTIK_SM_END - 1)
    /\ block.up_orientation \in JS_RIGHT..(ORIENTATION_COUNT - 1)

\* keyboard_post_init_user with a block in the store, which it does not read
InitConfig ==
    /\ persisted \in PersistedBlocks
    /\ probe = [fn |-> "keyboard_post_init_user", stored |-> persisted]
    /\ cal_run \in CalibrationRuns
    /\ vikstik_calibration \in calibrate_vikstik(Samples(cal_run))
    /\ mode = JS_MODE
    /\ up_orientation = JS_UP_ORIENTATION
    /\ px = 0
    /\ py = 0
    /\ held = {}
    /\ axis = <<0, 0>>
    /\ layer = _QWERTY
    /\ events = <<>>
    /\ effect = "none"
    /\ last_op = "keyboard_post_init_user"
    /\ prev_px = 0
    /\ prev_py = 0
    /\ mode_hist = <<>>
    /\ last_step = <<JS_UP_ORIENTATION, 0>>
    /\ rot_in = Coord(0, 0)
    /\ rot_cur = Coord(0, 0)
    /\ rot_seq = <<>>
    /\ stick_timer = 0
    /\ now = 0
    /\ last_raw = <<>>
    /\ released = FALSE

NextConfig == StepMode \/ StepOrientation

SpecConfig == InitConfig /\ [][NextConfig]_vars

----------------------------------------------------------------------------
(* Letting go of the stick: ticks, the mode key and the layer keys while the  *)
(* user moves the stick; then the stick is released on a base layer and       *)
(* stays at rest while the scan loop keeps ticking                            *)

\* The reading of a stick at rest after the calibration runs of CalibrationRuns
RestSample == Coord(512, 512)

\* The stick at rest, pushed along an axis, and pushed fully right and
\* slightly up (scaled (126,14): off the axes, in the sector of RIGHT)
LiveSamples == PollSamples \cup {Coord(1023, 572)}

\* A gated tick while the user still moves the stick
PollMoving ==
    /\ ~released
    /\ \E raw \in LiveSamples :
          /\ handle_vikstik(raw)
          /\ last_raw' = <<raw>>
    /\ UNCHANGED <<stick_timer, now, persisted, cal_run, probe, released>>

StepModeMoving ==
    /\ ~released
    /\ StepMode

LayerChangeMoving ==
    /\ ~released
    /\ LayerChange

\* The user lets go of the stick while a base layer is active
Release ==
    /\ ~released
    /\ layer < _LOWER
    /\ released' = TRUE
    /\ UNCHANGED <<mode, up_orientation, vikstik_calibration, px, py, held, axis,
                   layer, events, effect, last_op, prev_px, prev_py, mode_hist,
                   study_vars, stick_timer, now, persisted, cal_run, last_raw, probe>>

\* A gated tick after the release: the stick reads its rest position
PollAtRest ==
    /\ released
    /\ handle_vikstik(RestSample)
    /\ last_raw' = <<RestSample>>
    /\ UNCHANGED <<stick_timer, now, persisted, cal_run, probe, released>>

NextLive ==
    PollMoving \/ StepModeMoving \/ LayerChangeMoving \/ Release \/ PollAtRest

\* The scan loop calls process_vikstik in every cycle, so a tick that has
\* something to do is eventually run
SpecLive == Init /\ [][NextLive]_vars /\ WF_vars(PollAtRest)

----------------------------------------------------------------------------
(* Observations of the last tick of a key mode *)

KeyOps == {"handle_wasd", "handle_arrows"}

\* The keys <<up, left, down, right>> of the key mode whose handler ran last
KeysOf(op) ==
    IF op = "handle_wasd" THEN <<KC_W, KC_A, KC_S, KC_D>>
    ELSE <<KC_UP, KC_LEFT, KC_DOWN, KC_RGHT>>

EventsOn(keys) == SelectSeq(events, LAMBDA e : e.key \in keys)

\* What the last tick found and emitted on the y axis and on the x axis:
\* tri-state before, tri-state after, positive key, negative key, events
AxisViews ==
    LET k == KeysOf(last_op)
    IN  {[before |-> AxisState(prev_py), after |-> AxisState(py),
          pos |-> k[1], neg |-> k[3], evs |-> EventsOn({k[1], k[3]})],
         [before |-> AxisState(prev_px), after |-> AxisState(px),
          pos |-> k[4], neg |-> k[2], evs |-> EventsOn({k[4], k[2]})]}

\* Key pairs <<positive, negative>> of one axis, per key mode
AxisKeyPairs ==
    {<<KC_W, KC_S>>, <<KC_D, KC_A>>, <<KC_UP, KC_DOWN>>, <<KC_RGHT, KC_LEFT>>}

\* Every key-up of evs finds its key down, every key-down finds it up
RECURSIVE Balanced(_, _)
Balanced(h, evs) ==
    IF evs = <<>> THEN TRUE
    ELSE /\ (Head(evs).ev = "unregister" => Head(evs).key \in h)
         /\ (Head(evs).ev = "register" => Head(evs).key \notin h)
         /\ Balanced(ApplyEvents(h, <<Head(evs)>>), Tail(evs))

----------------------------------------------------------------------------
(* Claims *)

\* C1: a tick on which an axis goes straight from negative to positive (or
\* back) emits exactly one key-up of the old key and one key-down of the new
\* key of that axis.
C1_DirectReversalEmitsUpAndDown ==
    last_op \in KeyOps =>
        \A a \in AxisViews :
            /\ (a.before = -1 /\ a.after = 1 =>
                    a.evs \in {<<Unregister(a.neg), Register(a.pos)>>,
                               <<Register(a.pos), Unregister(a.neg)>>})
            /\ (a.before = 1 /\ a.after = -1 =>
                    a.evs \in {<<Unregister(a.pos), Register(a.neg)>>,
                               <<Register(a.neg), Unregister(a.pos)>>})

\* C2: the positive and the negative key of one axis are never down together.
C2_NoOpposingKeysHeld ==
    \A p \in AxisKeyPairs : ~(p[1] \in held /\ p[2] \in held)

\* C3: every operation's key events are balanced: a key-up only for a key
\* that is down, a key-down only for a key that is up.
C3_BalancedKeyEvents == [][Balanced(held, events')]_vars

\* C4: right after step_stick_mode the retained previous axis values are
\* neutral, so that the new mode starts from a neutral edge state.
C4_ModeStepResetsEdgeState ==
    last_op = "step_stick_mode" => AxisState(px) = 0 /\ AxisState(py) = 0

\* C5: on one axis, crossing from neutral to positive emits exactly the
\* key-down of the positive key, returning from positive to neutral emits
\* exactly its key-up, and a tick that leaves the tri-state unchanged emits
\* nothing.
C5_SingleExcursion ==
    last_op \in KeyOps =>
        \A a \in AxisViews :
            /\ (a.before = 0 /\ a.after = 1 =>
                    a.evs = <<Register(a.pos)>> /\ a.pos \in held)
            /\ (a.before = a.after => a.evs = <<>>)
            /\ (a.before = 1 /\ a.after = 0 =>
                    a.evs = <<Unregister(a.pos)>> /\ a.pos \notin held)

\* C5 witness: an excursion of the x axis has ended in arrows mode, the
\* key-up of Right was the only event, and no key is left down.
C5_Witness ==
    /\ last_op = "handle_arrows"
    /\ AxisState(prev_px) = 1
    /\ AxisState(px) = 0
    /\ events = <<Unregister(KC_RGHT)>>
    /\ held = {}

\* C6: a step of the orientation by +1 or -1 yields (orientation + step)
\* modulo ORIENTATION_COUNT, and the stored orientation is always one of
\* JS_RIGHT, JS_UP, JS_LEFT, JS_DOWN.
C6_OrientationStepsModulo ==
    /\ up_orientation \in {JS_RIGHT, JS_UP, JS_LEFT, JS_DOWN}
    /\ (last_op = "step_stick_up_orientation" =>
            up_orientation = (last_step[1] + last_step[2]) % ORIENTATION_COUNT)

\* C7: the mode is always one of the three modes, every step_stick_mode
\* zeroes both analog axes, and three steps return to the mode they left.
C7_ModeCycle ==
    /\ mode \in {VIKSTIK_SM_ANALOG, VIKSTIK_SM_WASD, VIKSTIK_SM_ARROWS}
    /\ (last_op = "step_stick_mode" => axis = <<0, 0>>)
    /\ (Len(mode_hist) = VIKSTIK_SM_END => mode = mode_hist[1])
    /\ (Len(mode_hist) >= 1 => mode # mode_hist[Len(mode_hist)])

\* C7 witness: three steps in a row have brought the stick back to WASD
\* mode while a key of that mode is still down.
C7_Witness ==
    /\ last_op = "step_stick_mode"
    /\ Len(mode_hist) = VIKSTIK_SM_END
    /\ mode = VIKSTIK_SM_WASD
    /\ mode_hist[1] = VIKSTIK_SM_WASD
    /\ KC_W \in held

\* C8: one rotation maps (x, y) to (x, y) for UP, (y, -x) for LEFT,
\* (-x, -y) for DOWN and (-y, x) for RIGHT.
C8_RotationTable ==
    Len(rot_seq) = 1 =>
        LET x == rot_in.x_coordinate
            y == rot_in.y_coordinate
        IN  /\ (rot_seq[1] = JS_UP => rot_cur = Coord(x, y))
            /\ (rot_seq[1] = JS_LEFT => rot_cur = Coord(y, -x))
            /\ (rot_seq[1] = JS_DOWN => rot_cur = Coord(-x, -y))
            /\ (rot_seq[1] = JS_RIGHT => rot_cur = Coord(-y, x))

\* C9: the rotation of one orientation applied twice is the rotation of the
\* doubled angle: DOWN once is the half turn and UP once the identity; LEFT
\* twice and RIGHT twice are the half turn, DOWN twice and UP twice the
\* identity.
C9_RotationTwiceIsDoubled ==
    LET half_turn == Coord(-rot_in.x_coordinate, -rot_in.y_coordinate)
    IN  /\ (rot_seq = <<JS_DOWN>> => rot_cur = half_turn)
        /\ (rot_seq = <<JS_UP>> => rot_cur = rot_in)
        /\ (rot_seq = <<JS_LEFT, JS_LEFT>> => rot_cur = half_turn)
        /\ (rot_seq = <<JS_RIGHT, JS_RIGHT>> => rot_cur = half_turn)
        /\ (rot_seq = <<JS_DOWN, JS_DOWN>> => rot_cur = rot_in)
        /\ (rot_seq = <<JS_UP, JS_UP>> => rot_cur = rot_in)

\* C9 witness: LEFT has been applied twice to a coordinate off both axes
\* and off the diagonals.
C9_Witness ==
    /\ rot_seq = <<JS_LEFT, JS_LEFT>>
    /\ rot_in = Coord(41, js_profile.out_min)
    /\ rot_cur = Coord(-41, js_profile.out_max)

\* C10 as stated: UP, then LEFT three times, returns the original coordinate.
C10_UpThenThreeLeftsIsIdentity ==
    rot_seq = <<JS_UP, JS_LEFT, JS_LEFT, JS_LEFT>> => rot_cur = rot_in

\* C10 amended: UP, then LEFT three times, is three quarter-turns, which is
\* what RIGHT does in one step; a fourth LEFT returns the original coordinate.
C10_UpThenFourLeftsIsIdentity ==
    /\ (rot_seq = <<JS_RIGHT>> =>
            rot_cur = Coord(rot_in.y_coordinate, -rot_in.x_coordinate))
    /\ (rot_seq = <<JS_UP, JS_LEFT, JS_LEFT, JS_LEFT>> =>
            rot_cur = Coord(rot_in.y_coordinate, -rot_in.x_coordinate))
    /\ (rot_seq = <<JS_UP, JS_LEFT, JS_LEFT, JS_LEFT, JS_LEFT>> =>
            rot_cur = rot_in)

\* C10 witness: the fourth LEFT after UP has brought a coordinate off the
\* axes and diagonals back to where it started.
C10_Witness ==
    /\ rot_seq = <<JS_UP, JS_LEFT, JS_LEFT, JS_LEFT, JS_LEFT>>
    /\ rot_in = Coord(41, js_profile.out_min)
    /\ rot_cur = rot_in

----------------------------------------------------------------------------
(* Observations of the coordinate transform *)

\* The reading raw lies strictly inside the calibrated inner deadzone circle
InDeadzone(raw) ==
    LET dx == raw.x_coordinate - vikstik_calibration.x_neutral
        dy == raw.y_coordinate - vikstik_calibration.y_neutral
        deadzone_inner == vikstik_calibration.deadzone_inner
    IN  /\ Abs(dx) < deadzone_inner
        /\ Abs(dy) < deadzone_inner
        /\ dx * dx + dy * dy < deadzone_inner * deadzone_inner

\* The calibrated neutral as a reading
Neutral == Coord(vikstik_calibration.x_neutral, vikstik_calibration.y_neutral)

\* The calibration run with every reading at the centre of 0..1023
CentreRun == CalRun(<<512, 512>>, <<512, 512>>, CALIBRATION_SAMPLE_COUNT)

\* C11: whatever the calibration and the orientation, read_vikstik returns
\* (0,0) for a reading at the calibrated neutral and for every reading whose
\* squared distance from the neutral is below deadzone_inner squared
C11_DeadzoneZeroes ==
    (probe.fn = "read_vikstik" /\ (probe.raw = Neutral \/ InDeadzone(probe.raw)))
        => probe.result = Coord(0, 0)

\* A reading off the neutral but inside a deadzone widened by drift, read
\* under a turned orientation
C11_Witness ==
    /\ probe.fn = "read_vikstik"
    /\ probe.raw = Coord(571, 512)
    /\ InDeadzone(probe.raw)
    /\ vikstik_calibration.deadzone_inner = 89
    /\ up_orientation = JS_LEFT
    /\ probe.result = Coord(0, 0)

\* C12: whatever the 16-bit reading, the calibration (any scale_factor) and
\* the orientation, both coordinates read_vikstik returns lie in
\* out_min..out_max = -127..127, so they pass to an int8_t unchanged
C12_BoundedOutput ==
    probe.fn = "read_vikstik"
        => /\ probe.result.x_coordinate \in js_profile.out_min..js_profile.out_max
           /\ probe.result.y_coordinate \in js_profile.out_min..js_profile.out_max
           /\ ToInt8(probe.result.x_coordinate) = probe.result.x_coordinate
           /\ ToInt8(probe.result.y_coordinate) = probe.result.y_coordinate

\* A reading at the end of the int16_t range under the steepest defined
\* scale_factor: the 16-bit store of the scaled value wraps, the clamp bounds it
C12_Witness ==
    /\ probe.fn = "read_vikstik"
    /\ vikstik_calibration.scale_factor = FIXED_POINT_SCALE * js_profile.out_max
    /\ probe.raw = Coord(1023, 32767)
    /\ up_orientation = JS_DOWN
    /\ probe.result.x_coordinate \in {js_profile.out_min, js_profile.out_max}
    /\ probe.result.y_coordinate \in {js_profile.out_min, js_profile.out_max}

\* C13: after a calibration on readings all at the centre 512, a reading of
\* raw_max on one axis (the other at the neutral) yields exactly out_max on
\* that axis and a reading of raw_min yields exactly out_min (stick upright)
C13_FullScaleReachesBounds ==
    (probe.fn = "read_vikstik" /\ cal_run = CentreRun /\ up_orientation = JS_UP)
        => /\ probe.raw = Coord(js_profile.raw_max, 512)
                => probe.result = Coord(js_profile.out_max, 0)
           /\ probe.raw = Coord(512, js_profile.raw_max)
                => probe.result = Coord(0, js_profile.out_max)
           /\ probe.raw = Coord(js_profile.raw_min, 512)
                => probe.result = Coord(js_profile.out_min, 0)
           /\ probe.raw = Coord(512, js_profile.raw_min)
                => probe.result = Coord(0, js_profile.out_min)

\* C14: calibrated on readings all (512,512), deadzone 60, actuation point 40,
\* stick upright, ARROWS mode, edge state neutral: a poll reading (512,512)
\* outputs (0,0) and emits no key event; a poll reading (700,512) outputs
\* y = 0 and emits exactly one event, the key-down of Right
C14_RestThenRight ==
    (/\ cal_run = CentreRun
     /\ vikstik_calibration.deadzone_inner = 60
     /\ js_profile.actuation_point = 40
     /\ up_orientation = JS_UP
     /\ last_op = "handle_arrows"
     /\ prev_px = 0
     /\ prev_py = 0)
        => /\ last_raw = <<Coord(512, 512)>>
                => (px = 0 /\ py = 0 /\ events = <<>>)
           /\ last_raw = <<Coord(700, 512)>>
                => (py = 0 /\ events = <<Register(KC_RGHT)>>)

\* The second poll of the scenario: from rest, (700,512) is read, Right goes
\* down and is the only key held
C14_Witness ==
    /\ cal_run = CentreRun
    /\ up_orientation = JS_UP
    /\ last_op = "handle_arrows"
    /\ prev_px = 0
    /\ prev_py = 0
    /\ last_raw = <<Coord(700, 512)>>
    /\ px = 46
    /\ py = 0
    /\ events = <<Register(KC_RGHT)>>
    /\ held = {KC_RGHT}

\* The largest reading of a calibration run, as max_neutral of calibrate_vikstik
LargestSample(run) ==
    LET first == Max2(run.first[1], run.first[2])
        rest == Max2(run.rest[1], run.rest[2])
    IN  ToUint16(Max2(0, IF run.n >= CALIBRATION_SAMPLE_COUNT THEN first
                         ELSE IF run.n <= 0 THEN rest
                         ELSE Max2(first, rest)))

\* The scale factors a division by a positive divisor can produce
NominalScales == 1..(FIXED_POINT_SCALE * js_profile.out_max)

\* C15: whenever the divisor of the scale computation is zero (the largest
\* reading of the calibration run equals raw_max), calibration returns a
\* nominal non-zero scale_factor instead of the result of a division by zero
C15_DegenerateCalibrationGuarded ==
    (js_profile.raw_max - LargestSample(cal_run) = 0)
        => vikstik_calibration.scale_factor \in NominalScales

----------------------------------------------------------------------------
(* Observations of the angle quantizer *)

\* 100 * <<cos, sin>> of the bucket angles of the first quadrant
UnitOfFirstQuadrant(r) ==
    CASE r = DIR_R -> <<100, 0>>
      [] r = DIR_RRU -> <<92, 39>>
      [] r = DIR_RU -> <<71, 71>>
      [] r = DIR_UUR -> <<37, 93>>

\* u turned by q quarter turns counterclockwise
RECURSIVE QuarterTurns(_, _)
QuarterTurns(u, q) == IF q = 0 THEN u ELSE QuarterTurns(<<-u[2], u[1]>>, q - 1)

\* 100 * <<cos, sin>> of the bucket angle b
UnitOf(b) == QuarterTurns(UnitOfFirstQuadrant(b % 90), b \div 90)

BucketAngles == {angle_to_direction[i] : i \in 1..ANGLE_DIVISIONS}

\* b is a bucket angle and the polar angle of coordinates is within 23 degrees
\* of it, circularly: the component across b is at most tan(23) = 0.425 of
\* the component along b
WithinOneBucket(coordinates, b) ==
    /\ b \in BucketAngles
    /\ LET u == UnitOf(b)
           along == coordinates.x_coordinate * u[1] + coordinates.y_coordinate * u[2]
           across == coordinates.x_coordinate * u[2] - coordinates.y_coordinate * u[1]
       IN  along > 0 /\ Abs(across) * 1000 <= 425 * along

\* C16: for every coordinate other than (0,0), calculate_angle_lite without
\* rotation returns a bucket angle within one bucket width (23 degrees,
\* circularly) of the true polar angle; so (1,0) gives about 0, (0,1) about
\* 90, (-1,0) about 180 and (0,-1) about 270
C16_LiteAngleWithinOneBucket ==
    (/\ probe.fn = "calculate_angle_lite"
     /\ ~probe.rotate
     /\ probe.coordinates # Coord(0, 0))
        => WithinOneBucket(probe.coordinates, probe.result)

\* The un-rotated scaled coordinate of the reading raw, when it is defined
ScaledOf(raw) == CHOOSE c \in apply_scaling_and_deadzone(raw) : TRUE

\* raw scales to one defined coordinate, on an axis and off the origin
OnAxis(raw) ==
    /\ Cardinality(apply_scaling_and_deadzone(raw)) = 1
    /\ (ScaledOf(raw).x_coordinate = 0) # (ScaledOf(raw).y_coordinate = 0)

\* The cardinal direction of a coordinate on an axis
CardinalOf(c) ==
    CASE c.x_coordinate > 0 -> JS_RIGHT
      [] c.x_coordinate < 0 -> JS_LEFT
      [] c.y_coordinate > 0 -> JS_UP
      [] c.y_coordinate < 0 -> JS_DOWN

\* C17: for every reading whose scaled un-rotated coordinate lies exactly on
\* an axis outside the deadzone, calculate_raw_direction returns the matching
\* cardinal: RIGHT for (x>0, 0), UP for (0, y>0), LEFT for (x<0, 0), DOWN
\* for (0, y<0)
C17_OnAxisIsCardinal ==
    (probe.fn = "calculate_raw_direction" /\ OnAxis(probe.raw))
        => probe.result = CardinalOf(ScaledOf(probe.raw))

\* C18: a call of process_vikstik runs the stick handler only when more than
\* stick_timer_ms has passed since the previous run, and the run restarts the
\* interval, so two runs are more than stick_timer_ms apart; a call within
\* the interval changes no state (timer, edge state, mode, orientation, keys,
\* analog report) and emits no key event and no effect
C18_TimerGate ==
    [][(probe' # probe /\ probe'.fn = "process_vikstik")
        => IF probe'.ran
           THEN /\ probe'.elapsed = now - stick_timer
                /\ probe'.elapsed > js_profile.stick_timer_ms
                /\ stick_timer' = now
           ELSE /\ UNCHANGED <<stick_timer, handler_vars>>
                /\ events' = <<>>
                /\ effect' = "none"]_vars

\* A handler run at time 6 pushed the stick right; a call exactly
\* stick_timer_ms later was gated out and left the report alone
C18_Witness ==
    /\ probe.fn = "process_vikstik"
    /\ ~probe.ran
    /\ probe.elapsed = js_profile.stick_timer_ms
    /\ stick_timer = 6
    /\ now = 11
    /\ axis = <<46, 0>>
    /\ last_op = "process_vikstik"

\* C19: every gated tick on a base layer in ANALOG mode forwards the
\* transformed (x,y) of the reading to the analog channels 0 and 1 and emits
\* no key-down and no key-up, whatever the stick position and the edge state
\* the key mapper retains
C19_AnalogForwardsOnly ==
    (last_op = "handle_analog" /\ last_raw # <<>>)
        => /\ layer \in BaseLayers
           /\ events = <<>>
           /\ \E coordinates \in read_vikstik(last_raw[1]) :
                 axis = <<ToInt8(coordinates.x_coordinate),
                          ToInt8(coordinates.y_coordinate)>>

\* The key mapper retains a push to the right from WASD mode (D is still
\* held); an analog tick with the stick pushed left reports (-41,0) and
\* emits no key event
C19_Witness ==
    /\ last_op = "handle_analog"
    /\ mode = VIKSTIK_SM_ANALOG
    /\ px = 46
    /\ held = {KC_D}
    /\ last_raw = <<Coord(346, 512)>>
    /\ axis = <<-41, 0>>
    /\ events = <<>>

----------------------------------------------------------------------------
(* Observations of the configuration *)

\* C20: at startup, a persisted configuration whose mode or orientation is
\* outside its legal domain, or that is all-uninitialized, is replaced by the
\* hard-coded default configuration, and the default is written back to the
\* persistence store
C20_InvalidConfigRepaired ==
    (/\ last_op = "keyboard_post_init_user"
     /\ probe.fn = "keyboard_post_init_user"
     /\ ~ValidConfig(probe.stored))
        => /\ ConfigBlock(mode, up_orientation) = DefaultConfig
           /\ persisted = DefaultConfig

\* C21: every operation that changes the mode or the orientation
\* (set_stick_up_orientation, step_stick_up_orientation, step_stick_mode)
\* persists the full configuration block at once: after each such call the
\* persisted block equals the in-memory configuration
C21_WriteThrough ==
    last_op \in {"step_stick_mode", "step_stick_up_orientation"}
        => persisted = ConfigBlock(mode, up_orientation)

\* C22: for every coordinate of the output range other than (0,0), the index
\* octant * 2 + fine of calculate_angle_lite lies in 0..15, so the table is
\* never read past its 16 entries, and the result (for either value of
\* rotate and every orientation in 0..3) is an angle in [0, 360)
C22_BucketIndexInTable ==
    (probe.fn = "calculate_angle_lite" /\ probe.coordinates # Coord(0, 0))
        => /\ dir_index(probe.coordinates) \in 0..(ANGLE_DIVISIONS - 1)
           /\ probe.result >= 0
           /\ probe.result < 360

\* The cardinal whose 45-degree window [c - 22, c + 23) holds the angle a
\* (cardinal c at 90 * c degrees), or -1 if none does
SectorOf(a) ==
    IF \E c \in JS_RIGHT..(ORIENTATION_COUNT - 1) : (a - 90 * c + 22) % 360 < 45
    THEN CHOOSE c \in JS_RIGHT..(ORIENTATION_COUNT - 1) : (a - 90 * c + 22) % 360 < 45
    ELSE -1

\* C23: over the 16 bucket angles, an angle a is classified as cardinal c
\* exactly when a lies in [c - 22, c + 23) modulo 360, so the classification
\* is invariant under adding 90 degrees: the direction of a + 90 is the next
\* cardinal counter-clockwise of the direction of a, and NONE stays NONE
C23_SectorsAreQuarterTurnInvariant ==
    probe.fn = "direction_of_angle"
        => /\ probe.result = SectorOf(probe.angle)
           /\ direction_of_angle((probe.angle + 90) % 360) =
                 (IF probe.result = -1 THEN -1
                  ELSE (probe.result + 1) % ORIENTATION_COUNT)

----------------------------------------------------------------------------
(* Observations of the direction *)

\* C24: for every reading inside the inner deadzone (scaled coordinate (0,0))
\* calculate_direction returns -1, for both values of rotate and every
\* orientation; the orientation correction never turns -1 into a direction
\* and never yields a direction outside {0,1,2,3}
C24_ZeroMagnitudeIsNone ==
    probe.fn = "calculate_direction"
        => /\ InDeadzone(probe.raw) => probe.result = -1
           /\ probe.result \in {-1} \cup JS_RIGHT..(ORIENTATION_COUNT - 1)
           /\ (probe.result = -1) =>  -1 \in calculate_raw_direction(probe.raw)
           /\ calculate_raw_direction(probe.raw) = {-1} => probe.result = -1

\* A reading off the neutral and inside the deadzone, corrected for a stick
\* installed with LEFT up, has no direction
C24_Witness ==
    /\ probe.fn = "calculate_direction"
    /\ probe.rotate
    /\ up_orientation = JS_LEFT
    /\ probe.raw = Coord(522, 512)
    /\ InDeadzone(probe.raw)
    /\ probe.result = -1

----------------------------------------------------------------------------
(* Observations of the calibration *)

\* (raw_min + raw_max) / 2
IdealNeutral == (js_profile.raw_min + js_profile.raw_max) \div 2

\* The larger distance of the two calibrated neutrals from the ideal neutral
NeutralDrift ==
    Max2(Abs(vikstik_calibration.x_neutral - IdealNeutral),
         Abs(vikstik_calibration.y_neutral - IdealNeutral))

\* C25: the deadzone_inner calibrate_vikstik produces is at least the
\* deadzone_inner of the profile and at least the larger of
\* |x_neutral - ideal| and |y_neutral - ideal|, ideal = (raw_min + raw_max) / 2;
\* it equals the larger of the two
C25_DeadzoneOnlyWidened ==
    /\ vikstik_calibration.deadzone_inner >= js_profile.deadzone_inner
    /\ vikstik_calibration.deadzone_inner >= NeutralDrift
    /\ vikstik_calibration.deadzone_inner = Max2(js_profile.deadzone_inner, NeutralDrift)

\* A stick resting off centre: the y neutral drifts by 71, the x neutral by
\* 89, and the deadzone is widened from 60 to 89
C25_Witness ==
    /\ cal_run = CalRun(<<600, 440>>, <<600, 440>>, CALIBRATION_SAMPLE_COUNT)
    /\ vikstik_calibration.x_neutral = 600
    /\ vikstik_calibration.y_neutral = 440
    /\ NeutralDrift = 89
    /\ js_profile.deadzone_inner = 60
    /\ vikstik_calibration.deadzone_inner = 89

\* Every reading of the run lies in raw_min..raw_max
RunInRange(run) ==
    \A v \in {run.first[1], run.first[2], run.rest[1], run.rest[2]} :
        v \in js_profile.raw_min..js_profile.raw_max

\* The sum of the readings of one axis (1: x, 2: y) of the run
RunTotal(run, a) ==
    LET n == IF run.n < 0 THEN 0
             ELSE IF run.n > CALIBRATION_SAMPLE_COUNT THEN CALIBRATION_SAMPLE_COUNT
             ELSE run.n
    IN  n * run.first[a] + (CALIBRATION_SAMPLE_COUNT - n) * run.rest[a]

\* C26: when all CALIBRATION_SAMPLE_COUNT readings lie in raw_min..raw_max,
\* calibrate_vikstik sets x_neutral and y_neutral to the integer quotient
\* (sum of the readings) / sample count of their axis; both lie in
\* raw_min..raw_max and the 32-bit accumulators do not overflow
C26_NeutralIsMean ==
    RunInRange(cal_run)
        => /\ RunTotal(cal_run, 1) <= INT32_MAX
           /\ RunTotal(cal_run, 2) <= INT32_MAX
           /\ vikstik_calibration.x_neutral =
                 RunTotal(cal_run, 1) \div CALIBRATION_SAMPLE_COUNT
           /\ vikstik_calibration.y_neutral =
                 RunTotal(cal_run, 2) \div CALIBRATION_SAMPLE_COUNT
           /\ vikstik_calibration.x_neutral \in js_profile.raw_min..js_profile.raw_max
           /\ vikstik_calibration.y_neutral \in js_profile.raw_min..js_profile.raw_max

\* A run of 33 readings in one corner and 67 in the opposite one: the means
\* 337.26 and 684.74 are truncated
C26_Witness ==
    /\ cal_run = CalRun(<<1022, 0>>, <<0, 1022>>, 33)
    /\ RunInRange(cal_run)
    /\ RunTotal(cal_run, 1) = 33726
    /\ RunTotal(cal_run, 2) = 68474
    /\ vikstik_calibration.x_neutral = 337
    /\ vikstik_calibration.y_neutral = 684

\* Every reading of the run lies in raw_min..raw_max - 1
RunBelowMax(run) ==
    \A v \in {run.first[1], run.first[2], run.rest[1], run.rest[2]} :
        v \in js_profile.raw_min..(js_profile.raw_max - 1)

\* The reading lies in raw_min..raw_max on both axes
RawInRange(raw) ==
    /\ raw.x_coordinate \in js_profile.raw_min..js_profile.raw_max
    /\ raw.y_coordinate \in js_profile.raw_min..js_profile.raw_max

\* v is zero or has the sign of d
ZeroOrSameSign(v, d) == v = 0 \/ (v > 0 /\ d > 0) \/ (v < 0 /\ d < 0)

\* C27: for every calibration calibrate_vikstik produces from readings in
\* [raw_min, raw_max) and every reading in raw_min..raw_max outside the
\* deadzone, each axis of the result of apply_scaling_and_deadzone is zero or
\* has the sign of the centred deviation raw - neutral of that axis: the
\* 16-bit store of the scaled product does not wrap to the opposite sign
C27_ScalingKeepsSign ==
    (/\ probe.fn = "apply_scaling_and_deadzone"
     /\ RunBelowMax(cal_run)
     /\ RawInRange(probe.raw)
     /\ ~InDeadzone(probe.raw))
        => /\ ZeroOrSameSign(probe.result.x_coordinate,
                             probe.raw.x_coordinate - vikstik_calibration.x_neutral)
           /\ ZeroOrSameSign(probe.result.y_coordinate,
                             probe.raw.y_coordinate - vikstik_calibration.y_neutral)

\* The cardinal a coordinate points to: the direction of its larger
\* component, -1 on a diagonal and at the origin
DominantCardinal(c) ==
    CASE Abs(c.x_coordinate) > Abs(c.y_coordinate) ->
            (IF c.x_coordinate > 0 THEN JS_RIGHT ELSE JS_LEFT)
      [] Abs(c.y_coordinate) > Abs(c.x_coordinate) ->
            (IF c.y_coordinate > 0 THEN JS_UP ELSE JS_DOWN)
      [] OTHER -> -1

\* C28: for every orientation and every reading whose un-rotated direction is
\* not -1, calculate_direction(rotate = true) returns the cardinal of the
\* coordinate handle_rotation produces for that reading: turning the
\* coordinate and turning the direction index give the same cardinal
C28_CorrectionsAgree ==
    (/\ probe.fn = "calculate_direction"
     /\ probe.rotate
     /\ Cardinality(apply_scaling_and_deadzone(probe.raw)) = 1
     /\ -1 \notin calculate_raw_direction(probe.raw))
        => \A coordinates \in read_vikstik(probe.raw) :
              probe.result = DominantCardinal(coordinates)

----------------------------------------------------------------------------
(* Observations of the release *)

\* C29: after any sequence of polls, step_stick_mode calls and layer changes,
\* once the stick has returned to neutral and stays there while gated ticks
\* keep running on a base layer, eventually no key the stick registered
\* remains down
C29_NoStuckKey == released ~> (held = {})

\* The lighting effect the handler of the layer l invokes for the direction d
LayerEffect(l, d) ==
    CASE l = _LOWER -> handle_lower_layer_rgb(d)
      [] l = _RAISE -> handle_raise_layer_rgb(d)
      [] l = _ADJUST -> handle_adjust_layer_rgb(d)
      [] OTHER -> "none"

HandlerNames == {stick_mode_names[i] : i \in 1..VIKSTIK_SM_END}

====
